---- MODULE Spec2Model ----
(* Model of scripts/filter_playlist.py: fetch_text (ordered fallback over  *)
(* source URLs), filter_playlist (single forward scan over the lines of an *)
(* M3U playlist) and main (fetch, filter, write, report).                  *)
(*                                                                         *)
(* Texts are TLA+ strings and every string function of the program is      *)
(* computed character by character.  Python indexes lists from 0; the      *)
(* sequences here are indexed from 1, so the model's index is the code's   *)
(* index + 1 and "index < len(lines)" reads "index <= Len(lines)".         *)
EXTENDS Integers, Sequences, FiniteSets, TLC

VARIABLES entry, args, net, fs, fs0, pc, urls, url_i, last_error, attempts,
          text, selected_url, exc, keywords, lines, header, output_lines,
          kept_by_group, index, pairs, filtered_text, stdout, exit_status

vars == <<entry, args, net, fs, fs0, pc, urls, url_i, last_error, attempts,
          text, selected_url, exc, keywords, lines, header, output_lines,
          kept_by_group, index, pairs, filtered_text, stdout, exit_status>>

---------------------------------------------------------------------------
(* Bounds of the model.                                                    *)

\* longest playlist, in lines, handed to filter_playlist directly
MaxLines == 3
\* longest source list handed to fetch_text directly
MaxSources == 3

---------------------------------------------------------------------------
(* Characters and strings.                                                 *)

\* U+FEFF, the byte-order mark; TLA+ strings are ASCII, "^" stands for it
BOM == "^"
\* Python's None, where the program's value is otherwise a string
None == "<None>"

Ch(s, i) == SubSeq(s, i, i)
MinOf(S) == CHOOSE m \in S : \A n \in S : m <= n
MaxOf(S) == CHOOSE m \in S : \A n \in S : m >= n

\* str.isspace() on the characters a TLA+ string can hold
IsSpace(c) == c \in {" ", "\t", "\n", "\r", "\f"}

\* a strip that forgets the leading whitespace (str.rstrip)
StripTrailingOnly(s) ==
    LET keep == {i \in 1..Len(s) : ~IsSpace(Ch(s, i))}
    IN  IF keep = {} THEN "" ELSE SubSeq(s, 1, MaxOf(keep))

\* str.strip(): drops leading and trailing whitespace (the BOM is none)
Strip(s) ==
    LET keep == {i \in 1..Len(s) : ~IsSpace(Ch(s, i))}
    IN  IF keep = {} THEN "" ELSE SubSeq(s, MinOf(keep), MaxOf(keep))

\* str.lstrip("\ufeff"): drops every leading BOM, nothing else
LStripBOM(s) ==
    LET keep == {i \in 1..Len(s) : Ch(s, i) # BOM}
    IN  IF keep = {} THEN "" ELSE SubSeq(s, MinOf(keep), Len(s))

\* str.startswith
StartsWith(s, p) == Len(s) >= Len(p) /\ SubSeq(s, 1, Len(p)) = p

\* "keyword in group_title": literal, case-sensitive substring test
Contains(s, k) ==
    \E i \in 0..(Len(s) - Len(k)) : SubSeq(s, i + 1, i + Len(k)) = k

\* str.splitlines(): breaks at \n, \r and \r\n, no empty last line
RECURSIVE SplitLines(_)
SplitLines(t) ==
    IF t = "" THEN <<>>
    ELSE LET brk == {i \in 1..Len(t) : Ch(t, i) \in {"\n", "\r"}}
         IN  IF brk = {} THEN <<t>>
             ELSE LET b == MinOf(brk)
                      e == IF Ch(t, b) = "\r" /\ b < Len(t) /\ Ch(t, b + 1) = "\n"
                           THEN b + 1 ELSE b
                  IN  <<SubSeq(t, 1, b - 1)>> \o SplitLines(SubSeq(t, e + 1, Len(t)))

\* "\n".join(output_lines)
RECURSIVE JoinLines(_)
JoinLines(ls) ==
    IF ls = <<>> THEN ""
    ELSE IF Len(ls) = 1 THEN ls[1]
    ELSE ls[1] \o "\n" \o JoinLines(Tail(ls))

---------------------------------------------------------------------------
(* filter_playlist.                                                        *)

EXTM3U == "#EXTM3U"
EXTINF == "#EXTINF"
\* the literal part of GROUP_TITLE_PATTERN in front of the capture group
GROUP_TITLE_OPEN == "group-title=\""
QUOTE == "\""

\* GROUP_TITLE_PATTERN.search: leftmost position where group-title=" is
\* followed by a closing quote; the capture group is the text up to the
\* first such quote.  "" when the pattern is absent.
extract_group_title(extinf_line) ==
    LET n == Len(extinf_line)
        w == Len(GROUP_TITLE_OPEN)
        closers(p) == {q \in (p + w)..n : Ch(extinf_line, q) = QUOTE}
        starts == {p \in 1..n : /\ p + w - 1 <= n
                                /\ SubSeq(extinf_line, p, p + w - 1) = GROUP_TITLE_OPEN
                                /\ closers(p) # {}}
    IN  IF starts = {} THEN ""
        ELSE LET p == MinOf(starts)
             IN  SubSeq(extinf_line, p + w, MinOf(closers(p)) - 1)

\* a normalization that forgets the byte-order mark
NormalizeHeaderNoBom(line) == Strip(line)

\* line.lstrip("\ufeff").strip()
NormalizeHeader(line) == Strip(LStripBOM(line))

\* the for loop of the header: first line whose normalized form starts
\* with #EXTM3U, in that form; the bare token when there is none
FindHeader(ls) ==
    LET hit == {k \in 1..Len(ls) : StartsWith(NormalizeHeader(ls[k]), EXTM3U)}
    IN  IF hit = {} THEN EXTM3U ELSE NormalizeHeader(ls[MinOf(hit)])

\* any(keyword in group_title for keyword in keywords): left to right,
\* stopping at the first keyword found
RECURSIVE ShouldKeep(_, _)
ShouldKeep(group_title, kws) ==
    IF kws = <<>> THEN FALSE
    ELSE IF Contains(group_title, Head(kws)) THEN TRUE
    ELSE ShouldKeep(group_title, Tail(kws))

\* the inner while loop: where next_index stops.  Blank lines and every
\* line starting with "#" are passed over; Len(ls) + 1 when the input ends
\* first (stream_url stays None).
FindStreamUrl(ls, start) ==
    LET cand == {j \in start..Len(ls) :
                    /\ Strip(ls[j]) # ""
                    /\ ~StartsWith(Strip(ls[j]), "#")}
    IN  IF cand = {} THEN Len(ls) + 1 ELSE MinOf(cand)

\* an append that forgets the URL line
AppendKeptNoUrl(out, line, stream_url) == out \o <<line>>

\* output_lines.append(line); output_lines.append(stream_url)
AppendKept(out, line, stream_url) == out \o <<line, stream_url>>

\* a count that is set to 1 instead of incremented
IncrementOverwrite(counter, group_title) == (group_title :> 1) @@ counter

\* kept_by_group[group_title] += 1 on a Counter
Increment(counter, group_title) ==
    IF group_title \in DOMAIN counter
    THEN [counter EXCEPT ![group_title] = @ + 1]
    ELSE (group_title :> 1) @@ counter

\* index = next_index + 1 if stream_url else index + 1
Advance(idx, next_index, found) == IF found THEN next_index + 1 ELSE idx + 1

\* Counter(): no keys
EmptyCounter == [g \in {} |-> 0]

\* One iteration of the outer while loop, on the loop's variables.
\* pairs is a history of the (directive, URL) line positions emitted.
ScanBody(st, ls, kws) ==
    LET line == Strip(ls[st.index])
    IN  IF ~StartsWith(line, EXTINF)
        THEN [st EXCEPT !.index = st.index + 1]
        ELSE LET group_title == extract_group_title(line)
                 should_keep == ShouldKeep(group_title, kws)
                 next_index  == FindStreamUrl(ls, st.index + 1)
                 found       == next_index <= Len(ls)
                 stream_url  == IF found THEN Strip(ls[next_index]) ELSE None
                 keep        == found /\ should_keep
             IN  [index         |-> Advance(st.index, next_index, found),
                  output_lines  |-> IF keep
                                    THEN AppendKept(st.output_lines, line, stream_url)
                                    ELSE st.output_lines,
                  kept_by_group |-> IF keep
                                    THEN Increment(st.kept_by_group, group_title)
                                    ELSE st.kept_by_group,
                  pairs         |-> IF keep
                                    THEN Append(st.pairs, <<st.index, next_index>>)
                                    ELSE st.pairs]

\* the state of the scan when the outer loop is entered
ScanStart(ls) ==
    [index |-> 1, output_lines |-> <<FindHeader(ls)>>,
     kept_by_group |-> EmptyCounter, pairs |-> <<>>]

RECURSIVE ScanLoop(_, _, _)
ScanLoop(st, ls, kws) ==
    IF st.index > Len(ls) THEN st ELSE ScanLoop(ScanBody(st, ls, kws), ls, kws)

\* return "\n".join(output_lines) + "\n"
RenderOutput(out) == JoinLines(out) \o "\n"

\* filter_playlist as a function of its arguments
filter_playlist(t, kws) ==
    LET ls == SplitLines(t)
        st == ScanLoop(ScanStart(ls), ls, kws)
    IN  [filtered_text |-> RenderOutput(st.output_lines),
         kept_by_group |-> st.kept_by_group]

---------------------------------------------------------------------------
(* fetch_text and main: constants and values.                              *)

\* the except clause of fetch_text
CaughtErrors == {"URLError", "TimeoutError", "OSError"}

\* no exception recorded (last_error = None)
NoError == [kind |-> "None", at |-> 0]
\* no exception propagating
NoExc == [type |-> "None", msg |-> "", cause |-> NoError]

\* a failure raised without "from last_error"
FetchFailureNoCause(err) ==
    IF err = NoError
    THEN [type |-> "RuntimeError", msg |-> "no source URLs were provided",
          cause |-> NoError]
    ELSE [type |-> "RuntimeError", msg |-> "failed to fetch source playlist",
          cause |-> NoError]

\* raise RuntimeError(...) [from last_error] at the end of fetch_text
FetchFailure(err) ==
    IF err = NoError
    THEN [type |-> "RuntimeError", msg |-> "no source URLs were provided",
          cause |-> NoError]
    ELSE [type |-> "RuntimeError", msg |-> "failed to fetch source playlist",
          cause |-> err]

\* raw.decode("utf-8-sig", errors="replace"): one leading BOM is dropped
Decode(raw) == IF StartsWith(raw, BOM) THEN SubSeq(raw, 2, Len(raw)) ELSE raw

\* the two built-in sources
DEFAULT_SOURCE_URLS == <<"https://raw/Jsnzkpg1.m3u", "https://gh-proxy/Jsnzkpg1.m3u">>
\* the two built-in keywords (Chinese in the source, transliterated here)
DEFAULT_GROUP_KEYWORDS == <<"[3net]CCTV", "[unicom]Migu">>

\* an option argparse left at None; "x or DEFAULT" takes the default
Absent == <<>>

\* sum(kept_by_group.values())
RECURSIVE SumCounts(_)
SumCounts(counter) ==
    IF DOMAIN counter = {} THEN 0
    ELSE LET g == CHOOSE h \in DOMAIN counter : TRUE
         IN  counter[g] + SumCounts([h \in DOMAIN counter \ {g} |-> counter[h]])

---------------------------------------------------------------------------
(* The inputs explored.                                                    *)

\* the lines playlists are built from
LineSet ==
    { "#EXTM3U",
      BOM \o " #EXTM3U x\t",
      " " \o BOM \o "#EXTM3U y",
      "#EXTINF:-1 group-title=\"CCTV-News\",A",
      "\t#EXTINF:-1 tvg-id=\"b\",B ",
      " http://a/1 ",
      "",
      "#EXTVLCOPT:x" }

\* a playlist: each line followed by a line break
RECURSIVE TextOf(_)
TextOf(ls) == IF ls = <<>> THEN "" ELSE Head(ls) \o "\n" \o TextOf(Tail(ls))

\* longer playlists: two entries in a row, with differing and with equal
\* labels
SampleTexts ==
    { "#EXTM3U\n#EXTINF:-1 group-title=\"News\",X\nhttp://x\n#EXTINF:-1 group-title=\"Sport\",Y\nhttp://y\n",
      "#EXTINF:-1 group-title=\"News\",X\n http://x\n\n#EXTINF:-1 group-title=\"News\",Y\n#EXTVLCOPT:x\nhttp://y" }

Texts ==
    {TextOf(ls) : ls \in UNION {[1..n -> LineSet] : n \in 0..MaxLines}}
    \cup SampleTexts

KeywordLists == {<<"News">>, <<"news">>, <<"Sport", "News">>, <<"">>}

\* what a source can answer with
RemoteTexts ==
    { BOM \o "#EXTM3U\r\n#EXTINF:-1 group-title=\"[3net]CCTV-News\",A\r\nhttp://a/1\r\n",
      "#EXTM3U\n#EXTINF:-1 group-title=\"CCTV-News\",A\nhttp://a/1\n#EXTINF:-1 group-title=\"News\",B\n\nhttp://b/2\n#EXTINF:-1,C\n" }

Responses ==
    {[kind |-> k, body |-> ""] : k \in CaughtErrors \cup {"ValueError"}}
    \cup {[kind |-> "ok", body |-> t] : t \in RemoteTexts}

SourceUrl(k) == "http://src/" \o ToString(k)
SourceList(n) == [k \in 1..n |-> SourceUrl(k)]

\* the output directory and file before the run
FileSystems ==
    { [dir |-> FALSE, file |-> None],
      [dir |-> TRUE,  file |-> None],
      [dir |-> TRUE,  file |-> "#EXTM3U\nold\n"] }

---------------------------------------------------------------------------
(* The state machine.  entry is the function called from outside: main (a  *)
(* run of the script) or fetch_text / filter_playlist called directly.     *)
(* net[k] is what the k-th attempt of fetch_text will meet; fs0 is the     *)
(* file system when the run started.                                       *)

Blank ==
    /\ url_i = 1
    /\ last_error = NoError
    /\ attempts = <<>>
    /\ selected_url = None
    /\ exc = NoExc
    /\ lines = <<>>
    /\ header = None
    /\ output_lines = <<>>
    /\ kept_by_group = EmptyCounter
    /\ index = 1
    /\ pairs = <<>>
    /\ filtered_text = None
    /\ stdout = <<>>
    /\ exit_status = <<>>

InitMain ==
    /\ entry = "main"
    /\ pc = "main"
    /\ args \in [source_urls    : {Absent, SourceList(1), SourceList(2)},
                 group_keywords : {Absent, <<"News">>}]
    /\ \E n \in {IF args.source_urls = Absent
                 THEN Len(DEFAULT_SOURCE_URLS) ELSE Len(args.source_urls)} :
          net \in [1..n -> Responses]
    /\ fs \in FileSystems
    /\ urls = <<>>
    /\ keywords = <<>>
    /\ text = None
    /\ Blank

InitFetch ==
    /\ entry = "fetch_text"
    /\ pc = "fetch"
    /\ args = [source_urls |-> Absent, group_keywords |-> Absent]
    /\ \E n \in 0..MaxSources :
          /\ urls = SourceList(n)
          /\ net \in [1..n -> Responses]
    /\ fs = [dir |-> FALSE, file |-> None]
    /\ keywords = <<>>
    /\ text = None
    /\ Blank

InitFilter ==
    /\ entry = "filter_playlist"
    /\ pc = "filter"
    /\ args = [source_urls |-> Absent, group_keywords |-> Absent]
    /\ urls = <<>>
    /\ net = <<>>
    /\ fs = [dir |-> FALSE, file |-> None]
    /\ text \in Texts
    /\ keywords \in KeywordLists
    /\ Blank

Init == (InitMain \/ InitFetch \/ InitFilter) /\ fs0 = fs

\* a main that makes the output directory before it fetches
MainStartMkdir ==
    /\ pc = "main"
    /\ urls' = IF args.source_urls # Absent THEN args.source_urls
               ELSE DEFAULT_SOURCE_URLS
    /\ keywords' = IF args.group_keywords # Absent THEN args.group_keywords
                   ELSE DEFAULT_GROUP_KEYWORDS
    /\ fs' = [fs EXCEPT !.dir = TRUE]
    /\ pc' = "fetch"
    /\ UNCHANGED <<entry, args, net, fs0, url_i, last_error, attempts, text,
                   selected_url, exc, lines, header, output_lines,
                   kept_by_group, index, pairs, filtered_text, stdout,
                   exit_status>>

\* main, up to the call of fetch_text
MainStart ==
    /\ pc = "main"
    /\ urls' = IF args.source_urls # Absent THEN args.source_urls
               ELSE DEFAULT_SOURCE_URLS
    /\ keywords' = IF args.group_keywords # Absent THEN args.group_keywords
                   ELSE DEFAULT_GROUP_KEYWORDS
    /\ pc' = "fetch"
    /\ UNCHANGED <<entry, args, net, fs, fs0, url_i, last_error, attempts, text,
                   selected_url, exc, lines, header, output_lines,
                   kept_by_group, index, pairs, filtered_text, stdout,
                   exit_status>>

\* an except clause that names urllib.error.URLError only
AttemptOutcomeUrlErrorOnly(r) ==
    IF r.kind = "ok" THEN "return"
    ELSE IF r.kind = "URLError" THEN "next"
    ELSE "raise"

\* what one pass of the for loop of fetch_text does with the answer r:
\* "return" on success, "next" after a caught error, "raise" otherwise
AttemptOutcome(r) ==
    IF r.kind = "ok" THEN "return"
    ELSE IF r.kind \in CaughtErrors THEN "next"
    ELSE "raise"

\* one pass of the for loop of fetch_text
FetchAttempt ==
    /\ pc = "fetch"
    /\ url_i <= Len(urls)
    /\ LET r == net[url_i]
           o == AttemptOutcome(r)
       IN  /\ attempts' = Append(attempts, [url |-> urls[url_i], kind |-> r.kind])
           /\ text' = IF o = "return" THEN Decode(r.body) ELSE text
           /\ selected_url' = IF o = "return" THEN urls[url_i] ELSE selected_url
           /\ last_error' = IF o = "next" THEN [kind |-> r.kind, at |-> url_i]
                            ELSE last_error
           /\ url_i' = IF o = "next" THEN url_i + 1 ELSE url_i
           /\ exc' = IF o = "raise"
                     THEN [type |-> r.kind, msg |-> "unknown url type",
                           cause |-> NoError]
                     ELSE exc
           /\ pc' = IF o = "return"
                    THEN (IF entry = "main" THEN "filter" ELSE "done")
                    ELSE IF o = "next" THEN "fetch" ELSE "raised"
    /\ UNCHANGED <<entry, args, net, fs, fs0, urls, keywords, lines, header,
                   output_lines, kept_by_group, index, pairs, filtered_text,
                   stdout, exit_status>>

\* the for loop of fetch_text ran out of sources
FetchExhausted ==
    /\ pc = "fetch"
    /\ url_i > Len(urls)
    /\ exc' = FetchFailure(last_error)
    /\ pc' = "raised"
    /\ UNCHANGED <<entry, args, net, fs, fs0, urls, url_i, last_error, attempts,
                   text, selected_url, keywords, lines, header, output_lines,
                   kept_by_group, index, pairs, filtered_text, stdout,
                   exit_status>>

\* filter_playlist, up to the outer while loop
FilterBegin ==
    /\ pc = "filter"
    /\ lines' = SplitLines(text)
    /\ header' = FindHeader(lines')
    /\ LET st == ScanStart(lines')
       IN  /\ output_lines' = st.output_lines
           /\ kept_by_group' = st.kept_by_group
           /\ index' = st.index
           /\ pairs' = st.pairs
    /\ pc' = "scan"
    /\ UNCHANGED <<entry, args, net, fs, fs0, urls, url_i, last_error, attempts,
                   text, selected_url, exc, keywords, filtered_text, stdout,
                   exit_status>>

\* one iteration of the outer while loop
ScanStep ==
    /\ pc = "scan"
    /\ index <= Len(lines)
    /\ LET st == ScanBody([index |-> index, output_lines |-> output_lines,
                           kept_by_group |-> kept_by_group, pairs |-> pairs],
                          lines, keywords)
       IN  /\ index' = st.index
           /\ output_lines' = st.output_lines
           /\ kept_by_group' = st.kept_by_group
           /\ pairs' = st.pairs
    /\ UNCHANGED <<entry, args, net, fs, fs0, pc, urls, url_i, last_error,
                   attempts, text, selected_url, exc, keywords, lines, header,
                   filtered_text, stdout, exit_status>>

\* the return of filter_playlist
FilterReturn ==
    /\ pc = "scan"
    /\ index > Len(lines)
    /\ filtered_text' = RenderOutput(output_lines)
    /\ pc' = IF entry = "main" THEN "mkdir" ELSE "done"
    /\ UNCHANGED <<entry, args, net, fs, fs0, urls, url_i, last_error, attempts,
                   text, selected_url, exc, keywords, lines, header,
                   output_lines, kept_by_group, index, pairs, stdout,
                   exit_status>>

\* output_path.parent.mkdir(parents=True, exist_ok=True): makes the
\* directory, or raises OSError
Mkdir ==
    /\ pc = "mkdir"
    /\ \/ /\ fs' = [fs EXCEPT !.dir = TRUE]
          /\ pc' = "write"
          /\ exc' = exc
       \/ /\ fs' = fs
          /\ pc' = "raised"
          /\ exc' = [type |-> "OSError", msg |-> "mkdir", cause |-> NoError]
    /\ UNCHANGED <<entry, args, net, fs0, urls, url_i, last_error, attempts,
                   text, selected_url, keywords, lines, header, output_lines,
                   kept_by_group, index, pairs, filtered_text, stdout,
                   exit_status>>

\* output_path.write_text(filtered_text): writes the file, or raises
\* OSError before the file is opened or after it was truncated
WriteText ==
    /\ pc = "write"
    /\ \/ /\ fs' = [fs EXCEPT !.file = filtered_text]
          /\ pc' = "report"
          /\ exc' = exc
       \/ /\ fs' \in {fs, [fs EXCEPT !.file = ""]}
          /\ pc' = "raised"
          /\ exc' = [type |-> "OSError", msg |-> "write", cause |-> NoError]
    /\ UNCHANGED <<entry, args, net, fs0, urls, url_i, last_error, attempts,
                   text, selected_url, keywords, lines, header, output_lines,
                   kept_by_group, index, pairs, filtered_text, stdout,
                   exit_status>>

\* the prints of main and its return 0; the per-group lines are printed in
\* sorted order, kept here as the set of (group, count) printed
Report ==
    /\ pc = "report"
    /\ LET total_entries == SumCounts(kept_by_group)
       IN  stdout' = <<[source  |-> selected_url,
                        total   |-> total_entries,
                        groups  |-> {<<g, kept_by_group[g]>> :
                                        g \in DOMAIN kept_by_group},
                        warning |-> (total_entries = 0)]>>
    /\ exit_status' = <<0>>
    /\ pc' = "exit"
    /\ UNCHANGED <<entry, args, net, fs, fs0, urls, url_i, last_error, attempts,
                   text, selected_url, exc, keywords, lines, header,
                   output_lines, kept_by_group, index, pairs, filtered_text>>

\* an exception leaves main: the interpreter exits with status 1
Abort ==
    /\ pc = "raised"
    /\ entry = "main"
    /\ exit_status' = <<1>>
    /\ pc' = "exit"
    /\ UNCHANGED <<entry, args, net, fs, fs0, urls, url_i, last_error, attempts,
                   text, selected_url, exc, keywords, lines, header,
                   output_lines, kept_by_group, index, pairs, filtered_text,
                   stdout>>

Next ==
    \/ MainStart
    \/ FetchAttempt
    \/ FetchExhausted
    \/ FilterBegin
    \/ ScanStep
    \/ FilterReturn
    \/ Mkdir
    \/ WriteText
    \/ Report
    \/ Abort

Spec == Init /\ [][Next]_vars

---------------------------------------------------------------------------
(* Vocabulary of the properties.                                           *)

\* filter_playlist has reached its outer loop / has returned
Scanning == output_lines # <<>>
FilterReturned == filtered_text # None
\* fetch_text has returned or raised
FetchOver == pc \notin {"main", "fetch"} /\ entry # "filter_playlist"

\* the kinds of failure of a source: network error, timeout, I/O error
SourceFailures == {"URLError", "TimeoutError", "OSError"}

Stripped(k) == Strip(lines[k])
DirectiveAt(k) == StartsWith(Stripped(k), EXTINF)
BlankAt(k) == Stripped(k) = ""
UrlAt(k) == ~BlankAt(k) /\ ~StartsWith(Stripped(k), "#")
LabelAt(k) == extract_group_title(Stripped(k))
LabelMatches(k) == \E i \in DOMAIN keywords : Contains(LabelAt(k), keywords[i])

EmittedDirs == {pairs[j][1] : j \in DOMAIN pairs}

\* the URL line of the entry opened by directive k: the first line after
\* it that is neither blank nor a comment, if that line is no directive;
\* 0 when the input ends or another directive comes first
OwnUrl(k) ==
    LET stop == {j \in (k + 1)..Len(lines) : UrlAt(j) \/ DirectiveAt(j)}
    IN  IF stop = {} THEN 0
        ELSE IF DirectiveAt(MinOf(stop)) THEN 0 ELSE MinOf(stop)

\* s is raw without its leading and trailing whitespace
IsTrimOf(s, raw) ==
    \E a \in 0..Len(raw) : \E b \in a..Len(raw) :
        /\ s = SubSeq(raw, a + 1, b)
        /\ \A i \in 1..a : IsSpace(Ch(raw, i))
        /\ \A i \in (b + 1)..Len(raw) : IsSpace(Ch(raw, i))
        /\ s # "" => ~IsSpace(Ch(s, 1)) /\ ~IsSpace(Ch(s, Len(s)))

\* where #EXTM3U stands in l behind byte-order marks followed by whitespace
TokenBehindBomThenSpace(l) ==
    {p \in 1..Len(l) :
        /\ p + Len(EXTM3U) - 1 <= Len(l)
        /\ SubSeq(l, p, p + Len(EXTM3U) - 1) = EXTM3U
        /\ \E a \in 0..(p - 1) :
              /\ \A i \in 1..a : Ch(l, i) = BOM
              /\ \A i \in (a + 1)..(p - 1) : IsSpace(Ch(l, i))}

\* where #EXTM3U stands in l behind byte-order marks and whitespace mixed
TokenBehindBomAndSpace(l) ==
    {p \in 1..Len(l) :
        /\ p + Len(EXTM3U) - 1 <= Len(l)
        /\ SubSeq(l, p, p + Len(EXTM3U) - 1) = EXTM3U
        /\ \A i \in 1..(p - 1) : Ch(l, i) = BOM \/ IsSpace(Ch(l, i))}

\* the header a document has when TokenAt says which lines qualify: the
\* first qualifying line from the token to its last non-blank character
HeaderBy(ls, TokenAt(_)) ==
    LET hit == {k \in 1..Len(ls) : TokenAt(ls[k]) # {}}
    IN  IF hit = {} THEN EXTM3U
        ELSE LET l == ls[MinOf(hit)]
                 p == MinOf(TokenAt(l))
                 e == MaxOf({i \in 1..Len(l) : ~IsSpace(Ch(l, i))})
             IN  SubSeq(l, p, e)

---------------------------------------------------------------------------
(* The properties.                                                         *)

\* C1: when filter_playlist has returned, a directive line of the input is
\* emitted (and counted) if and only if some URL line follows it and its
\* label contains one of the keywords.
C1_KeptIffUrlAndKeyword ==
    FilterReturned =>
        \A k \in 1..Len(lines) :
            DirectiveAt(k) =>
                (k \in EmittedDirs
                    <=> /\ \E j \in (k + 1)..Len(lines) : UrlAt(j)
                        /\ LabelMatches(k))

\* C2: a directive line with no URL line of its own (the input ends, or
\* the next directive comes, before any URL line) is never emitted and
\* never counted.
C2_DanglingDirectiveDiscarded ==
    Scanning =>
        /\ \A k \in 1..Len(lines) :
              DirectiveAt(k) /\ OwnUrl(k) = 0 => k \notin EmittedDirs
        /\ SumCounts(kept_by_group)
              <= Cardinality({k \in 1..Len(lines) : DirectiveAt(k) /\ OwnUrl(k) # 0})

\* C3: fetch_text attempts the sources in list order, once each, goes on
\* after a network, timeout or I/O failure, and returns the text and the
\* location of the first source that answers, attempting none after it.
C3_OrderedFallback ==
    /\ Len(attempts) <= Len(urls)
    /\ \A k \in DOMAIN attempts : attempts[k].url = urls[k]
    /\ \A k \in DOMAIN attempts : k < Len(attempts) => attempts[k].kind \in SourceFailures
    /\ (attempts # <<>> /\ attempts[Len(attempts)].kind \in SourceFailures
            /\ Len(attempts) < Len(urls))
          => pc = "fetch" /\ exc = NoExc /\ url_i = Len(attempts) + 1
    /\ \A j \in DOMAIN attempts :
          attempts[j].kind = "ok"
              => /\ j = Len(attempts)
                 /\ pc # "fetch"
                 /\ exc.type # "RuntimeError"
                 /\ selected_url = urls[j]
                 /\ text = Decode(net[j].body)
    /\ selected_url # None => attempts # <<>> /\ attempts[Len(attempts)].kind = "ok"

\* the sources [bad1, bad2, good]: (T, good) is returned
C3_Witness ==
    /\ Len(urls) = 3
    /\ Len(attempts) = 3
    /\ attempts[1].kind \in SourceFailures
    /\ attempts[2].kind \in SourceFailures
    /\ selected_url = urls[3]
    /\ text = Decode(net[3].body)
    /\ exc = NoExc

\* C4: fetch_text raises exactly when no source answered; when every
\* source failed (network, timeout, I/O) the error raised has the error of
\* the last source as its cause; with no sources it says so, has no cause,
\* and nothing was attempted.
C4_FetchFailure ==
    FetchOver =>
        /\ (selected_url = None /\ exc # NoExc)
              <=> (\A k \in DOMAIN attempts : attempts[k].kind # "ok")
        /\ (selected_url # None)
              <=> (\E k \in DOMAIN attempts : attempts[k].kind = "ok")
        /\ (/\ urls # <<>>
            /\ Len(attempts) = Len(urls)
            /\ \A k \in DOMAIN attempts : attempts[k].kind \in SourceFailures)
              => /\ exc.type = "RuntimeError"
                 /\ exc.cause = [kind |-> attempts[Len(urls)].kind, at |-> Len(urls)]
        /\ urls = <<>>
              => /\ exc = [type |-> "RuntimeError",
                           msg |-> "no source URLs were provided",
                           cause |-> NoError]
                 /\ attempts = <<>>

\* every source failed, the first and the last in different ways
C4_Witness ==
    /\ FetchOver
    /\ Len(urls) >= 2
    /\ Len(attempts) = Len(urls)
    /\ \A k \in DOMAIN attempts : attempts[k].kind \in SourceFailures
    /\ attempts[1].kind # attempts[Len(urls)].kind
    /\ exc.cause.at = Len(urls)

\* C5: the output directory and file differ from what they were at the
\* start only when fetch_text has returned and filter_playlist has produced
\* the whole filtered text; a run of main whose fetch failed ends with
\* status 1 and the directory and file as they were.
C5_OutputOnlyAfterFilter ==
    /\ fs # fs0 =>
          /\ selected_url # None
          /\ FilterReturned
          /\ filtered_text = filter_playlist(text, keywords).filtered_text
    /\ (pc = "exit" /\ selected_url = None) => exit_status = <<1>> /\ fs = fs0

\* every source failed while an older output file was in place
C5_Witness ==
    /\ pc = "exit"
    /\ selected_url = None
    /\ Len(attempts) = Len(urls)
    /\ exit_status = <<1>>
    /\ fs0.file # None
    /\ fs = fs0

\* C6: filtering the text filter_playlist returned, with the same
\* keywords, returns that text and the same counts.
C6_Idempotent ==
    FilterReturned =>
        filter_playlist(filtered_text, keywords)
            = [filtered_text |-> filtered_text, kept_by_group |-> kept_by_group]

\* an entry was kept and the first pass did change the text
C6_Witness ==
    /\ FilterReturned
    /\ pairs # <<>>
    /\ Len(lines) > Len(output_lines)
    /\ filtered_text # text

\* C7 as claimed: the two lines appended for a kept entry are the input
\* lines exactly as found.
C7_EmittedLinesUnmodified ==
    \A j \in DOMAIN pairs :
        /\ output_lines[2 * j] = lines[pairs[j][1]]
        /\ output_lines[2 * j + 1] = lines[pairs[j][2]]

\* C7: the two lines appended for a kept entry are the input lines without
\* their leading and trailing whitespace, otherwise unchanged.
C7_EmittedLinesStripped ==
    \A j \in DOMAIN pairs :
        /\ Len(output_lines) >= 2 * j + 1
        /\ IsTrimOf(output_lines[2 * j], lines[pairs[j][1]])
        /\ IsTrimOf(output_lines[2 * j + 1], lines[pairs[j][2]])

\* an entry was kept whose directive and URL lines both carried whitespace
C7_Witness ==
    \E j \in DOMAIN pairs :
        /\ output_lines[2 * j] # lines[pairs[j][1]]
        /\ output_lines[2 * j + 1] # lines[pairs[j][2]]

\* C8 as claimed: the header is the first line that starts with #EXTM3U
\* behind byte-order marks and whitespace in any order.
C8_HeaderAnyOrder ==
    Scanning => output_lines[1] = HeaderBy(lines, TokenBehindBomAndSpace)

\* C8: the first output line is the header: the first input line that
\* starts with #EXTM3U behind leading byte-order marks followed by
\* whitespace, without those and without trailing whitespace, or the bare
\* #EXTM3U; without directive lines the result is the header and a line
\* break, with no counts.
C8_HeaderBomThenSpace ==
    /\ Scanning =>
          /\ output_lines[1] = HeaderBy(lines, TokenBehindBomThenSpace)
          /\ header = output_lines[1]
    /\ FilterReturned =>
          /\ StartsWith(filtered_text, header \o "\n")
          /\ (\A k \in 1..Len(lines) : ~DirectiveAt(k))
                => /\ filtered_text = header \o "\n"
                   /\ kept_by_group = EmptyCounter

\* a line with a byte-order mark behind whitespace was passed over and a
\* later line with the mark in front gave the header
C8_Witness ==
    /\ FilterReturned
    /\ Len(lines) >= 2
    /\ lines[1] = " " \o BOM \o "#EXTM3U y"
    /\ header = "#EXTM3U x"
    /\ filtered_text = "#EXTM3U x\n"

\* C9: every directive whose label matches and which has a URL line of
\* its own is emitted exactly once, with that URL line, and no URL line is
\* emitted for two directives.
C9_CompleteEntryEmittedOnce ==
    FilterReturned =>
        /\ \A k \in 1..Len(lines) :
              (DirectiveAt(k) /\ OwnUrl(k) # 0 /\ LabelMatches(k))
                  => Cardinality({j \in DOMAIN pairs : pairs[j][1] = k}) = 1
                     /\ \E j \in DOMAIN pairs : pairs[j] = <<k, OwnUrl(k)>>
        /\ \A i, j \in DOMAIN pairs : pairs[i][2] = pairs[j][2] => i = j

\* C10: throughout the scan the output is the header followed by one
\* directive line and one URL line per kept entry, in input order; each
\* label's count is the number of emitted directives with that label; the
\* total main prints is the number of entries in the file it wrote.
C10_OutputShape ==
    /\ Scanning =>
          /\ output_lines[1] = header
          /\ Len(output_lines) = 1 + 2 * SumCounts(kept_by_group)
          /\ Len(output_lines) = 1 + 2 * Len(pairs)
          /\ \A j \in DOMAIN pairs :
                /\ StartsWith(output_lines[2 * j], EXTINF)
                /\ output_lines[2 * j] = Stripped(pairs[j][1])
                /\ output_lines[2 * j + 1] = Stripped(pairs[j][2])
                /\ UrlAt(pairs[j][2])
                /\ pairs[j][1] < pairs[j][2]
                /\ j > 1 => pairs[j - 1][2] < pairs[j][1]
          /\ DOMAIN kept_by_group
                = {extract_group_title(output_lines[2 * j]) : j \in DOMAIN pairs}
          /\ \A g \in DOMAIN kept_by_group :
                kept_by_group[g]
                    = Cardinality({j \in DOMAIN pairs :
                                      extract_group_title(output_lines[2 * j]) = g})
    /\ stdout # <<>> =>
          /\ fs.file = filtered_text
          /\ Len(SplitLines(fs.file)) = 1 + 2 * stdout[1].total
          /\ stdout[1].total = Len(pairs)

\* main reported two kept entries of two labels
C10_Witness ==
    /\ stdout # <<>>
    /\ stdout[1].total = 2
    /\ Cardinality(stdout[1].groups) = 2
    /\ Len(SplitLines(fs.file)) = 5

====
